---- MODULE Spec2Model ----
(***************************************************************************)
(* Telemetry delivery between sensor nodes (src/cli.c, src/cli_pico.c,     *)
(* src/cli_esp.c) and the alert UDP server (src/srv.c).                    *)
(*                                                                         *)
(* Conventions of the model                                                *)
(*  - a C string is [s, n]: the first n characters of the character        *)
(*    stream named s; strncpy(dst, src, k) keeps Min(n, k) of them and     *)
(*    strcmp is equality of both fields;                                   *)
(*  - a cJSON item is [kind, s, n, v] with kind "string", "number" or      *)
(*    "absent" (absent also stands for an item of any other JSON type);    *)
(*  - temperatures and humidities are integers in hundredths of a unit;    *)
(*  - sequence numbers are integers.                                       *)
(***************************************************************************)
EXTENDS Integers, Sequences, FiniteSets, TLC

VARIABLES
    \* --- server (srv.c)
    devices,        \* devices[0 .. device_count-1]
    clock,          \* the value time(NULL) returns
    last,           \* what the last pass of the receive loop did
    applied,        \* history: per client seq, accepted qos 1 passes (saturates at 2)
    proc,           \* the server process: main thread, keep-alive thread, MQTT client
    \* --- network
    toSrv,          \* datagrams sent by the client, not yet received by the server
    toCli,          \* datagrams waiting in the client's UDP socket
    \* --- client (cli.c, cli_pico.c)
    variant,        \* which firmware runs: "cli" or "pico"
    client,         \* the PubSubClient: client.connected(), and the broker it dials
    qos,            \* the global  int qos
    wifi,           \* WiFi.status() == WL_CONNECTED
    fs_is_ready,    \* the file system is mounted
    seq,            \* the global  unsigned long seq
    file,           \* the queue file /telemetry_log.txt
    current_delay,  \* the global  unsigned long current_delay
    pc,             \* where the client is
    payload,        \* loop(): the serialized reading
    call,           \* sendWithQoS: its arguments and locals
    ret,            \* sendWithQoS: the value returned last
    drain,          \* transmitStoredData: its locals
    obs,            \* history of the current sendWithQoS call
    dobs,           \* history of the current transmitStoredData call
    hist            \* history of the queue: records enqueued, records replayed

srvVars == <<devices, clock, last, applied, proc>>
netVars == <<toSrv, toCli>>
cliVars == <<variant, client, qos, wifi, fs_is_ready, seq, file, current_delay, pc,
             payload, call, ret, drain, obs, dobs, hist>>
vars == <<devices, clock, last, applied, proc, toSrv, toCli, variant, client, qos, wifi,
          fs_is_ready, seq, file, current_delay, pc, payload, call, ret,
          drain, obs, dobs, hist>>

----------------------------------------------------------------------------
\* Program constants (srv.c)

\* srv.c:23 is 1024; the registry is scaled down so that it can fill up.
MAX_DEVICES == 2
ID_SIZE == 128
DATE_SIZE == 64
TEMP_MIN == 0
TEMP_MAX == 5000
HUM_MIN == 2000
HUM_MAX == 8000
TEMP_DIFF_THRESHOLD == 200
HUM_DIFF_THRESHOLD == 500

\* Bound of the model: the last value of the server's clock.
MaxClock == 1

----------------------------------------------------------------------------
\* Strings and JSON items

Min(a, b) == IF a < b THEN a ELSE b
Abs(x) == IF x < 0 THEN -x ELSE x

Str(name, len) == [s |-> name, n |-> len]
EmptyStr == Str("", 0)

\* strncpy(dst, src, k); dst[k] = '\0'
Strncpy(src, k) == IF src.n <= k THEN src ELSE Str(src.s, k)

JString(str) == [kind |-> "string", s |-> str.s, n |-> str.n, v |-> 0]
JNumber(x) == [kind |-> "number", s |-> "", n |-> 0, v |-> x]
JAbsent == [kind |-> "absent", s |-> "", n |-> 0, v |-> 0]

cJSON_IsString(j) == j.kind = "string"
\* Variant: a missing item passes for a number.
cJSON_IsNumberOrMissing(j) == j.kind # "string"
cJSON_IsNumber(j) == j.kind = "number"
valuestring(j) == Str(j.s, j.n)

----------------------------------------------------------------------------
\* Device registry (srv.c)

device_count == Len(devices)

\* Index of the first entry whose id compares equal, 0 for NULL.
find_device_by_id(devs, id) ==
    IF \E i \in 1..Len(devs) : devs[i].id = id
    THEN CHOOSE i \in 1..Len(devs) :
            /\ devs[i].id = id
            /\ \A j \in 1..(i - 1) : devs[j].id # id
    ELSE 0

NewDevice(id, addr, now) ==
    [id |-> Strncpy(id, ID_SIZE - 1),
     temperature |-> 0,
     humidity |-> 0,
     dateObserved |-> EmptyStr,
     addr |-> addr,
     has_seq |-> 0,
     last_seq |-> -1,
     last_seen |-> now]

\* Variant: the capacity test lets one entry too many in.
add_or_get_deviceOverfull(devs, id, addr, now) ==
    LET i == find_device_by_id(devs, id) IN
    IF i # 0
    THEN [devs |-> [devs EXCEPT ![i].addr = addr, ![i].last_seen = now],
          idx |-> i]
    ELSE IF Len(devs) > MAX_DEVICES
    THEN [devs |-> devs, idx |-> 0]
    ELSE [devs |-> Append(devs, NewDevice(id, addr, now)),
          idx |-> Len(devs) + 1]

\* The registry after the call and the index of the returned entry (0: NULL).
add_or_get_device(devs, id, addr, now) ==
    LET i == find_device_by_id(devs, id) IN
    IF i # 0
    THEN [devs |-> [devs EXCEPT ![i].addr = addr, ![i].last_seen = now],
          idx |-> i]
    ELSE IF Len(devs) >= MAX_DEVICES
    THEN [devs |-> devs, idx |-> 0]
    ELSE [devs |-> Append(devs, NewDevice(id, addr, now)),
          idx |-> Len(devs) + 1]

\* send_ack builds {"type":"ACK","id":id,"seq":seq} and sends it to client_addr.
Ack(id, sn, to) == [type |-> "ACK", id |-> id, seq |-> sn, to |-> to]

----------------------------------------------------------------------------
\* One pass of the receive loop (srv.c main, lines 303-462)

Alert(type, device, other) == [type |-> type, device |-> device, other |-> other]

\* Variant: a reading on a bound counts as out of range.
RangeAlertsInclusive(id, temp, hum) ==
    (IF temp <= TEMP_MIN \/ temp >= TEMP_MAX
     THEN <<Alert("TEMPERATURE_OUT_OF_RANGE", id, EmptyStr)>> ELSE <<>>)
    \o
    (IF hum <= HUM_MIN \/ hum >= HUM_MAX
     THEN <<Alert("HUMIDITY_OUT_OF_RANGE", id, EmptyStr)>> ELSE <<>>)

\* Range validation of the received reading.
RangeAlerts(id, temp, hum) ==
    (IF temp < TEMP_MIN \/ temp > TEMP_MAX
     THEN <<Alert("TEMPERATURE_OUT_OF_RANGE", id, EmptyStr)>> ELSE <<>>)
    \o
    (IF hum < HUM_MIN \/ hum > HUM_MAX
     THEN <<Alert("HUMIDITY_OUT_OF_RANGE", id, EmptyStr)>> ELSE <<>>)

\* The differential loop over devices[i .. device_count-1]; log_alert_dual is
\* called with the id of the datagram.
RECURSIVE DiffAlerts(_, _, _, _)
DiffAlerts(devs, idx, id, i) ==
    IF i > Len(devs) THEN <<>>
    ELSE LET other == devs[i]
             dev == devs[idx]
             temp_diff == Abs(dev.temperature - other.temperature)
             hum_diff == Abs(dev.humidity - other.humidity)
             here == IF other.id = dev.id THEN <<>>
                     ELSE IF temp_diff >= TEMP_DIFF_THRESHOLD
                             \/ hum_diff >= HUM_DIFF_THRESHOLD
                     THEN <<Alert("DIFFERENTIAL_ALERT", id, other.id)>>
                     ELSE <<>>
         IN here \o DiffAlerts(devs, idx, id, i + 1)

\* seq stays -1 unless the item is a number >= 0.
ParseSeq(jseq) == IF cJSON_IsNumber(jseq) /\ jseq.v >= 0 THEN jseq.v ELSE -1

\* qos stays 0 unless the item is a number.
ParseQos(jqos) == IF cJSON_IsNumber(jqos) THEN jqos.v ELSE 0

\* Variant: a qos 1 record is never turned away for its seq.
MissingSeqNever(qs, sn) == FALSE

\* The test of line 388: a qos 1 record whose seq was not extracted.
MissingSeq(qs, sn) == qs = 1 /\ sn = -1

\* Variant: only an older seq counts as a duplicate.
IsDuplicateOlder(dev, sn) == dev.has_seq = 1 /\ sn < dev.last_seq

\* The duplicate test of line 396.
IsDuplicate(dev, sn) == dev.has_seq = 1 /\ sn = dev.last_seq

\* "Store reading" (lines 410-414).
StoreReading(dev, temp, hum, jdate, now) ==
    [dev EXCEPT !.temperature = temp,
                !.humidity = hum,
                !.dateObserved =
                    Strncpy(IF cJSON_IsString(jdate) THEN valuestring(jdate)
                            ELSE EmptyStr, DATE_SIZE - 1),
                !.last_seen = now]

\* Variant: has_seq is set but last_seq is not recorded.
StoreSeqFlagOnly(dev, qs, sn) ==
    IF qs = 1 THEN [dev EXCEPT !.has_seq = 1] ELSE dev

\* Variant: the sequence number is recorded whatever the qos.
StoreSeqAlways(dev, qs, sn) == [dev EXCEPT !.has_seq = 1, !.last_seq = sn]

\* Lines 416-422: the sequence number is recorded for a qos 1 record.
StoreSeq(dev, qs, sn) ==
    IF qs = 1 THEN [dev EXCEPT !.has_seq = 1, !.last_seq = sn] ELSE dev

\* What a pass did: the branch it left the loop body by, the values it
\* extracted, the ACKs it sent, how many times it stored a reading and ran the
\* alert evaluation, and the alerts it raised.
Pass(outcome, id, sn, qs, from, acks, stores, evals, alerts) ==
    [outcome |-> outcome, id |-> id, seq |-> sn, qos |-> qs, from |-> from,
     acks |-> acks, stores |-> stores, evals |-> evals, alerts |-> alerts]

NoPass == Pass("none", EmptyStr, -1, 0, "", <<>>, 0, 0, <<>>)

\* The registry and the pass record after the datagram d from address a.
Handle(devs, now, d, a) ==
    IF ~d.parse
    THEN [devices |-> devs,
          out |-> Pass("invalid_json", EmptyStr, -1, 0, a, <<>>, 0, 0, <<>>)]
    ELSE IF ~cJSON_IsString(d.id) \/ ~cJSON_IsNumber(d.temperature)
            \/ ~cJSON_IsNumber(d.relativeHumidity)
    THEN [devices |-> devs,
          out |-> Pass("missing_fields", EmptyStr, -1, 0, a, <<>>, 0, 0, <<>>)]
    ELSE
    LET id == valuestring(d.id)
        temp == d.temperature.v
        hum == d.relativeHumidity.v
        sn == ParseSeq(d.seq)
        qs == ParseQos(d.qos)
        got == add_or_get_device(devs, id, a, now)
        dev == got.devs[got.idx]
    IN
    IF got.idx = 0
    THEN [devices |-> got.devs,
          out |-> Pass("registry_full", id, sn, qs, a, <<>>, 0, 0, <<>>)]
    ELSE IF MissingSeq(qs, sn)
    THEN [devices |-> got.devs,
          out |-> Pass("missing_seq", id, sn, qs, a, <<>>, 0, 0, <<>>)]
    ELSE IF qs = 1 /\ IsDuplicate(dev, sn)
    THEN [devices |-> got.devs,
          out |-> Pass("duplicate", id, sn, qs, a, <<Ack(id, sn, a)>>,
                       0, 0, <<>>)]
    ELSE
    LET stored == StoreSeq(StoreReading(dev, temp, hum, d.dateObserved, now),
                           qs, sn)
        after == [got.devs EXCEPT ![got.idx] = stored]
    IN [devices |-> after,
        out |-> Pass("accepted", id, sn, qs, a,
                     IF qs = 1 THEN <<Ack(id, sn, a)>> ELSE <<>>,
                     1, 1,
                     RangeAlerts(id, temp, hum)
                        \o DiffAlerts(after, got.idx, id, 1))]

----------------------------------------------------------------------------
\* Client constants and initial values (cli.c, cli_pico.c)

MAX_RETRIES == 5
INITIAL_BACKOFF_MS == 200
MAX_BACKOFF_MS == 5000
BASE_DELAY_MS == 5000
MAX_DELAY_MS == 60000
THROTTLING_THRESHOLD == 10
THROTTLING_FACTOR == 2000

\* Bounds of the model: the client generates readings while seq < MaxSeq, and
\* each direction of the network holds at most MaxInFlight datagrams.
MaxSeq == 3
MaxInFlight == 1
\* The seq of the record an earlier session left in the file.
PrevSeq == 7

DEVICE_ID == Str("PICO_Device_01", 14)
OtherId == Str("ESP32_Device_01", 15)
\* An id longer than the 127 characters the registry keeps.
LongId == Str("LONG_Device", 130)

ClientAddr == "10.0.0.1"
OtherAddr == "10.0.0.2"
Addrs == {ClientAddr, OtherAddr}

Malformed ==
    [parse |-> FALSE, id |-> JAbsent, temperature |-> JAbsent,
     relativeHumidity |-> JAbsent, dateObserved |-> JAbsent, seq |-> JAbsent,
     qos |-> JAbsent]

Record(jid, jtemp, jhum, jdate, jseq, jqos) ==
    [parse |-> TRUE, id |-> jid, temperature |-> jtemp,
     relativeHumidity |-> jhum, dateObserved |-> jdate, seq |-> jseq,
     qos |-> jqos]

\* loop(): the JSON document of a reading; dateObserved is millis(), a number.
MkPayload(temp, hum, s, q) ==
    Record(JString(DEVICE_ID), JNumber(temp), JNumber(hum), JNumber(0),
           JNumber(s), JNumber(q))

\* Variant: every stored line is replayed under the default seq.
SeqOfLineDefault(line) == 0

\* transmitStoredData:  stored_seq = doc["seq"] | 0
SeqOfLine(line) == IF line.seq.kind = "number" THEN line.seq.v ELSE 0

NoCall == [payload |-> Malformed, current_seq |-> 0, retry_count |-> 0,
           backoff_ms |-> INITIAL_BACKOFF_MS, delivered |-> FALSE,
           caller |-> "none"]
NoDrain == [lines |-> <<>>, failed_messages |-> <<>>, count |-> 0]
NoObs == [tx |-> 0, waits |-> 0, delays |-> <<>>, matched |-> FALSE,
          tx_after_match |-> FALSE, link_up |-> FALSE]
NoDobs == [start |-> <<>>, tx |-> 0, link_down |-> FALSE, done |-> FALSE,
           attempted |-> <<>>, results |-> <<>>]
NoHist == [dropped |-> {}, redelivered |-> {}, lost |-> {}]
NoFile == [exists |-> FALSE, lines |-> <<>>]

\* A record left in the file by an earlier session of the device.
StoredRecord == MkPayload(2000, 5000, PrevSeq, 1)

\* What the flash can hold at power-up: no file, a file with a torn line, or a
\* file with a record of an earlier session.
StoredFiles ==
    {NoFile, [exists |-> TRUE, lines |-> <<Malformed>>],
     [exists |-> TRUE, lines |-> <<StoredRecord>>]}

ClientBoot ==
    /\ client = [connected |-> FALSE, broker |-> TRUE]
    /\ seq = 0
    /\ current_delay = BASE_DELAY_MS
    /\ payload = Malformed
    /\ call = NoCall
    /\ ret = FALSE
    /\ drain = NoDrain
    /\ obs = NoObs
    /\ dobs = NoDobs
    /\ hist = NoHist

\* The server process when main enters the receive loop: the MQTT client is
\* connected and the keep-alive thread has been created (otherwise main has
\* called exit); the socket and the alert log are open.  "warnings" is the
\* number of alerts of the last pass that could not be published, "closed"
\* the resources the program has released.
ProcBoot ==
    [main |-> "recvfrom", mqtt_thread |-> "MQTTClient_yield",
     connected |-> TRUE, warnings |-> 0, closed |-> {}]

ServerBoot ==
    /\ devices = <<>>
    /\ clock = 0
    /\ last = NoPass
    /\ applied = [s \in 0..MaxSeq |-> 0]
    /\ proc = ProcBoot

----------------------------------------------------------------------------
\* The server alone, receiving any datagram from any address

\* The datagrams offered to the server, each with its source address.
DateStr == Str("2025-01-01T00:00:00Z", 20)
LongDateStr == Str("LONG_DATE", 70)
JDates == {JNumber(0), JString(DateStr), JString(LongDateStr)}
Temps == {2000, 2250}

\* Readings of the client's id: both temperatures with a short date string, one
\* of them also with a numeric and with an over-long date.
Readings ==
    {<<t, JString(DateStr)>> : t \in Temps} \cup {<<2000, jd>> : jd \in JDates}

ClientRecord(r, js, jq) ==
    Record(JString(DEVICE_ID), JNumber(r[1]), JNumber(5000), r[2], js, jq)

\* From the client's address: its id with every reading, seq absent, 0 or 1 and
\* qos 0 or 1; a negative seq; a seq that is a string; qos absent.
FromClient ==
    {ClientRecord(r, js, jq) :
        r \in Readings, js \in {JAbsent, JNumber(0), JNumber(1)},
        jq \in {JNumber(0), JNumber(1)}}
    \cup {ClientRecord(<<2250, JString(DateStr)>>, js, JNumber(1)) :
            js \in {JNumber(-1), JString(Str("7", 1))}}
    \cup {ClientRecord(<<2250, JString(DateStr)>>, js, JAbsent) :
            js \in {JAbsent, JNumber(0)}}

\* From another address: an unparseable datagram, records lacking a mandatory
\* field or carrying it with the wrong JSON type, the client's id, and one
\* qos 1 record of each other id.
FromOther ==
    {Malformed}
    \cup {Record(JAbsent, JNumber(2000), JNumber(5000), JAbsent, JNumber(0), JNumber(1)),
          Record(JString(DEVICE_ID), JAbsent, JNumber(5000), JAbsent, JNumber(0), JNumber(1)),
          Record(JString(DEVICE_ID), JNumber(2000), JAbsent, JAbsent, JNumber(0), JNumber(1)),
          Record(JNumber(1), JNumber(2000), JNumber(5000), JAbsent, JNumber(0), JNumber(1)),
          Record(JString(DEVICE_ID), JString(Str("hot", 3)), JNumber(5000), JAbsent,
                 JNumber(0), JNumber(1))}
    \cup {ClientRecord(<<2000, JString(DateStr)>>, js, JNumber(1)) :
            js \in {JNumber(0), JNumber(1)}}
    \cup {Record(JString(i), JNumber(2250), JNumber(5000), JString(DateStr),
                 JNumber(0), JNumber(1)) : i \in {OtherId, LongId}}

Datagrams == FromClient \cup FromOther

Arrivals ==
    {<<d, ClientAddr>> : d \in FromClient} \cup {<<d, OtherAddr>> : d \in FromOther}

\* History: count an accepted qos 1 pass of a client record.
Count(app, out) ==
    IF out.outcome = "accepted" /\ out.qos = 1 /\ out.id = DEVICE_ID
       /\ out.seq \in DOMAIN app
    THEN [app EXCEPT ![out.seq] = Min(@ + 1, 2)]
    ELSE app

\* log_alert_dual: the alerts of a pass that MQTTClient_publishMessage did
\* not take; each is logged as a warning and the function returns.
Warnings(alerts, connected) == IF connected THEN 0 ELSE Len(alerts)

\* Variant: the server gives up when an alert cannot be published.
AfterPassStrict(outcome, warnings) ==
    IF warnings > 0 THEN "exited" ELSE "recvfrom"

\* Where main is after a pass: every branch of the loop body ends in continue
\* or falls to the end of the body, and log_alert_dual always returns.
AfterPass(outcome, warnings) == "recvfrom"

\* recvfrom returned the datagram d from address a; the ACKs go out and the
\* alerts are logged and published.
Receive(d, a) ==
    LET r == Handle(devices, clock, d, a)
        w == Warnings(r.out.alerts, proc.connected)
    IN
    /\ proc.main = "recvfrom"
    /\ devices' = r.devices
    /\ last' = r.out
    /\ applied' = Count(applied, r.out)
    /\ proc' = [proc EXCEPT !.warnings = w,
                            !.main = AfterPass(r.out.outcome, w)]
    /\ UNCHANGED clock

\* Time passes on the server.
Tick ==
    /\ clock < MaxClock
    /\ clock' = clock + 1
    /\ UNCHANGED <<devices, last, applied, proc>>

InitSrv ==
    /\ ServerBoot
    /\ ClientBoot
    /\ toSrv = <<>>
    /\ toCli = <<>>
    /\ variant = "pico"
    /\ qos = 1
    /\ wifi = TRUE
    /\ fs_is_ready = TRUE
    /\ file = NoFile
    /\ pc = "off"

RecvAny ==
    /\ \E x \in Arrivals : Receive(x[1], x[2])
    /\ UNCHANGED <<netVars, cliVars>>

SrvTick ==
    /\ Tick
    /\ UNCHANGED <<netVars, cliVars>>

NextSrv == RecvAny \/ SrvTick

Spec == InitSrv /\ [][NextSrv]_vars

----------------------------------------------------------------------------
\* The server alone, receiving qos 0 records with readings on, next to and
\* away from the bounds and thresholds of the alert evaluation

\* Hundredths of a degree: below and on TEMP_MIN, 20.0, 21.0, 21.99, 22.0,
\* 22.5, on and above TEMP_MAX.
AlertTemps == {-1, 0, 2000, 2100, 2199, 2200, 2250, 5000, 5001}
\* Hundredths of a percent: below and on HUM_MIN, 50.0, 54.99, 55.0, on and
\* above HUM_MAX.
AlertHums == {1999, 2000, 5000, 5499, 5500, 8000, 8001}

AlertReadings ==
    {<<t, 5000>> : t \in AlertTemps} \cup {<<2000, h>> : h \in AlertHums}
    \cup {<<2100, 5499>>, <<5001, 1999>>}

AlertIds == {DEVICE_ID, OtherId, LongId}

AlertDatagrams ==
    {Record(JString(i), JNumber(r[1]), JNumber(r[2]), JAbsent, JAbsent,
            JNumber(0)) : i \in AlertIds, r \in AlertReadings}

AlertArrivals == {<<d, OtherAddr>> : d \in AlertDatagrams}

RecvReading ==
    /\ \E x \in AlertArrivals : Receive(x[1], x[2])
    /\ UNCHANGED <<netVars, cliVars>>

NextAlert == RecvReading

SpecAlert == InitSrv /\ [][NextAlert]_vars

----------------------------------------------------------------------------
\* The server process: the receive loop, the MQTT keep-alive thread, the
\* broker and the signals of the operating system

ProcArrivals == {<<d, OtherAddr>> : d \in FromOther}

RecvProc ==
    /\ \E x \in ProcArrivals : Receive(x[1], x[2])
    /\ UNCHANGED <<netVars, cliVars>>

\* Variant: the keep-alive thread stamps the entries of the registry.
MqttYieldTouches ==
    /\ proc.mqtt_thread = "MQTTClient_yield"
    /\ proc' = [proc EXCEPT !.mqtt_thread = "usleep"]
    /\ devices' = [i \in DOMAIN devices |-> [devices[i] EXCEPT !.last_seen = -1]]
    /\ UNCHANGED <<clock, last, applied, netVars, cliVars>>

\* mqtt_thread_func: MQTTClient_yield() returns.
MqttYield ==
    /\ proc.mqtt_thread = "MQTTClient_yield"
    /\ proc' = [proc EXCEPT !.mqtt_thread = "usleep"]
    /\ UNCHANGED <<devices, clock, last, applied, netVars, cliVars>>

\* mqtt_thread_func: usleep(100 * 1000) returns.
MqttSleep ==
    /\ proc.mqtt_thread = "usleep"
    /\ proc' = [proc EXCEPT !.mqtt_thread = "MQTTClient_yield"]
    /\ UNCHANGED <<devices, clock, last, applied, netVars, cliVars>>

\* The connection to the MQTT broker is lost, and comes back.
BrokerDown ==
    /\ proc.main = "recvfrom"
    /\ proc.connected
    /\ proc' = [proc EXCEPT !.connected = FALSE]
    /\ UNCHANGED <<devices, clock, last, applied, netVars, cliVars>>

BrokerUp ==
    /\ proc.main = "recvfrom"
    /\ ~proc.connected
    /\ proc' = [proc EXCEPT !.connected = TRUE]
    /\ UNCHANGED <<devices, clock, last, applied, netVars, cliVars>>

\* SIGINT or SIGTERM arrives.  The program installs no handler, so the
\* default action ends the process where it stands, both threads with it; the
\* statements after the loop (lines 464-479) are not run.
Signal ==
    /\ proc.main = "recvfrom"
    /\ proc' = [proc EXCEPT !.main = "killed", !.mqtt_thread = "killed"]
    /\ UNCHANGED <<devices, clock, last, applied, netVars, cliVars>>

NextProc ==
    RecvProc \/ MqttYield \/ MqttSleep \/ BrokerDown \/ BrokerUp \/ Signal

SpecProc == InitSrv /\ [][NextProc]_vars

----------------------------------------------------------------------------
\* The client (cli.c, cli_pico.c), the network and the server together

\* The local  int qos_level = 1  of sendWithQoS.
qos_level == 1

\* What the DHT sensor returns when the reading is valid.
SensorTemps == {2000}

\* The datagram an ACK of the server is when it is read from the client's
\* socket: a JSON object with the string members type and id and the number
\* member seq.
Wire(ack) ==
    [parse |-> TRUE, type |-> JString(Str(ack.type, 3)), id |-> JString(ack.id),
     seq |-> JNumber(ack.seq)]

\* A datagram that is not JSON.
Garbage == [parse |-> FALSE, type |-> JAbsent, id |-> JAbsent, seq |-> JAbsent]

\* waitForAck: the test applied to a received datagram.  A datagram that
\* does not deserialize is skipped; then type = doc["type"] | "",
\* id = doc["id"] | "" and seq = doc["seq"] | 0 are compared.  (A negative
\* seq member becomes a large unsigned long; like the negative number it is
\* here, that differs from every seq the client uses.)
AckMatches(pkt, mySeq, myId) ==
    LET type == IF pkt.type.kind = "string" THEN valuestring(pkt.type)
                ELSE EmptyStr
        id == IF pkt.id.kind = "string" THEN valuestring(pkt.id) ELSE EmptyStr
        sq == IF pkt.seq.kind = "number" THEN pkt.seq.v ELSE 0
    IN pkt.parse /\ type = Str("ACK", 3) /\ id = myId /\ sq = mySeq

\* The datagram is an ACK of the record (myId, mySeq): it parses, its type is
\* the string "ACK", its id the string myId and its seq the number mySeq.
IsAckFor(pkt, mySeq, myId) ==
    /\ pkt.parse
    /\ pkt.type = JString(Str("ACK", 3))
    /\ pkt.id = JString(myId)
    /\ pkt.seq = JNumber(mySeq)

\* Variant: the link check is left out.
DisconnectedNever(link) == FALSE

\* sendWithQoS: WiFi.status() != WL_CONNECTED
Disconnected(link) == ~link

\* Variant: one more retry before giving up.
GiveUpLate(retry_count) == retry_count > MAX_RETRIES

\* sendWithQoS: retry_count >= MAX_RETRIES, after retry_count++
GiveUp(retry_count) == retry_count >= MAX_RETRIES

\* Variant: the backoff is tripled.
NextBackoffTripled(b) == IF b * 3 > MAX_BACKOFF_MS THEN MAX_BACKOFF_MS ELSE b * 3

\* Variant: the backoff is doubled without a cap.
NextBackoffUncapped(b) == b * 2

\* The backoff update of sendWithQoS: doubled, capped.
NextBackoff(b) == IF b * 2 > MAX_BACKOFF_MS THEN MAX_BACKOFF_MS ELSE b * 2

\* Variant: the pacing interval is not capped.
PacingUncapped(backlog_count) ==
    IF backlog_count > THROTTLING_THRESHOLD
    THEN BASE_DELAY_MS + (backlog_count - THROTTLING_THRESHOLD) * THROTTLING_FACTOR
    ELSE BASE_DELAY_MS

\* The adaptive throttling of transmitStoredData (cli_pico.c).
Pacing(backlog_count) ==
    IF backlog_count > THROTTLING_THRESHOLD
    THEN Min(BASE_DELAY_MS + (backlog_count - THROTTLING_THRESHOLD) * THROTTLING_FACTOR,
             MAX_DELAY_MS)
    ELSE BASE_DELAY_MS

\* Variant: the line is written twice.
logDataToFileTwice(f, line, opened) ==
    IF ~fs_is_ready \/ ~opened THEN f
    ELSE [exists |-> TRUE, lines |-> Append(Append(f.lines, line), line)]

\* Variant: the mount flag is not looked at.
logDataToFileUnmounted(f, line, opened) ==
    IF ~opened THEN f
    ELSE [exists |-> TRUE, lines |-> Append(f.lines, line)]

\* logDataToFile: the file after the call; opened says whether the open for
\* append succeeded.
logDataToFile(f, line, opened) ==
    IF ~fs_is_ready \/ ~opened THEN f
    ELSE [exists |-> TRUE, lines |-> Append(f.lines, line)]

\* Variant: an empty file is written when no message failed.
RewriteKeepsFile(f, failed, count) ==
    IF count > 0 THEN [exists |-> TRUE, lines |-> failed] ELSE f

\* The rolling-window rewrite at the end of transmitStoredData.
Rewrite(f, failed, count) ==
    IF count > 0
    THEN IF failed = <<>> THEN NoFile ELSE [exists |-> TRUE, lines |-> failed]
    ELSE f

\* setup(): cli.c waits for the link and replays the stored file; cli_pico.c
\* gives up waiting after a timeout and replays nothing.
Setup ==
    /\ pc = "setup"
    /\ IF variant = "cli"
       THEN /\ wifi
            /\ pc' = "drain"
       ELSE pc' = "loop"
    /\ UNCHANGED <<srvVars, netVars, variant, client, qos, wifi, fs_is_ready, seq, file,
                   current_delay, payload, call, ret, drain, obs, dobs,
                   hist>>

\* loop() calls reconnect() (cli_pico.c: reconnectMqtt()) when the MQTT
\* client is not connected: client.connect() succeeds and the while loop ends.
Reconnect ==
    /\ pc = "loop"
    /\ ~client.connected
    /\ client.broker
    /\ client' = [client EXCEPT !.connected = TRUE]
    /\ UNCHANGED <<srvVars, netVars, variant, qos, wifi, fs_is_ready, seq, file,
                   current_delay, pc, payload, call, ret, drain, obs, dobs,
                   hist>>

\* reconnect(): client.connect() failed; delay(5000) and the while loop tests
\* client.connected() again.
ReconnectRetry ==
    /\ pc = "loop"
    /\ ~client.connected
    /\ ~client.broker
    /\ UNCHANGED vars

\* loop(): a valid reading is serialized and sendWithQoS(payload, seq) is called.
Sense ==
    /\ pc = "loop"
    /\ client.connected
    /\ seq < MaxSeq
    /\ \E t \in SensorTemps :
          /\ payload' = MkPayload(t, 5000, seq, qos)
          /\ call' = [payload |-> MkPayload(t, 5000, seq, qos),
                      current_seq |-> seq, retry_count |-> 0,
                      backoff_ms |-> INITIAL_BACKOFF_MS, delivered |-> FALSE,
                      caller |-> "live"]
    /\ pc' = "sq_entry"
    /\ obs' = NoObs
    /\ UNCHANGED <<srvVars, netVars, variant, client, qos, wifi, fs_is_ready, seq, file,
                   current_delay, ret, drain, dobs,
                   hist>>

\* loop(): the reading is NaN; delay(1000) and return.
SenseFail ==
    /\ pc = "loop"
    /\ client.connected
    /\ UNCHANGED vars

\* sendWithQoS: the link check.
SqEntry ==
    /\ pc = "sq_entry"
    /\ IF Disconnected(wifi)
       THEN pc' = "sq_ret" /\ ret' = FALSE
       ELSE pc' = "sq_send" /\ UNCHANGED ret
    /\ obs' = [obs EXCEPT !.link_up = wifi]
    /\ UNCHANGED <<srvVars, netVars, variant, client, qos, wifi, fs_is_ready, seq, file,
                   current_delay, payload, call, drain, dobs,
                   hist>>

\* sendWithQoS: the datagram is sent (and may be lost); with qos_level 1 the
\* acknowledgement wait starts, otherwise the call returns true.
SqSend ==
    /\ pc = "sq_send"
    /\ \/ Len(toSrv) < MaxInFlight /\ toSrv' = Append(toSrv, call.payload)
       \/ toSrv' = toSrv
    /\ obs' = [obs EXCEPT !.tx = @ + 1,
                          !.waits = IF qos_level = 1 THEN @ + 1 ELSE @,
                          !.tx_after_match = obs.matched]
    /\ dobs' = IF call.caller = "drain" THEN [dobs EXCEPT !.tx = @ + 1] ELSE dobs
    /\ IF qos_level = 1
       THEN pc' = "sq_wait" /\ UNCHANGED <<call, ret>>
       ELSE /\ call' = [call EXCEPT !.delivered = TRUE]
            /\ ret' = TRUE
            /\ pc' = "sq_ret"
    /\ UNCHANGED <<srvVars, toCli, variant, client, qos, wifi, fs_is_ready, seq, file,
                   current_delay, payload, drain,
                   hist>>

\* waitForAck: a datagram is read; a matching ACK ends the call with true.
SqRecv ==
    /\ pc = "sq_wait"
    /\ toCli # <<>>
    /\ toCli' = Tail(toCli)
    /\ IF AckMatches(Head(toCli), call.current_seq, DEVICE_ID)
       THEN /\ call' = [call EXCEPT !.delivered = TRUE]
            /\ ret' = TRUE
            /\ pc' = "sq_ret"
       ELSE UNCHANGED <<call, ret, pc>>
    /\ obs' = [obs EXCEPT !.matched =
                  @ \/ IsAckFor(Head(toCli), call.current_seq, DEVICE_ID)]
    /\ UNCHANGED <<srvVars, toSrv, variant, client, qos, wifi, fs_is_ready, seq, file,
                   current_delay, payload, drain, dobs,
                   hist>>

\* waitForAck returned false: count the retry; give up at MAX_RETRIES, else
\* sleep backoff_ms, double it and send again.
SqTimeout ==
    /\ pc = "sq_wait"
    /\ IF GiveUp(call.retry_count + 1)
       THEN /\ call' = [call EXCEPT !.retry_count = @ + 1]
            /\ ret' = FALSE
            /\ pc' = "sq_ret"
            /\ UNCHANGED obs
       ELSE /\ call' = [call EXCEPT !.retry_count = @ + 1,
                                    !.backoff_ms = NextBackoff(@)]
            /\ obs' = [obs EXCEPT !.delays = Append(@, call.backoff_ms)]
            /\ pc' = "sq_send"
            /\ UNCHANGED ret
    /\ UNCHANGED <<srvVars, netVars, variant, client, qos, wifi, fs_is_ready, seq, file,
                   current_delay, payload, drain, dobs,
                   hist>>

\* loop() after the live send: a dropped record is logged to the file; after a
\* delivered one cli_pico.c replays the stored file; then seq++.
LiveRet ==
    /\ pc = "sq_ret"
    /\ call.caller = "live"
    /\ IF ~ret
       THEN /\ \E opened \in BOOLEAN :
                  /\ file' = logDataToFile(file, payload, opened)
                  /\ hist' = IF fs_is_ready /\ opened
                             THEN [hist EXCEPT !.dropped = @ \cup {payload}]
                             ELSE [hist EXCEPT !.lost = @ \cup {payload}]
            /\ seq' = seq + 1
            /\ pc' = "loop"
       ELSE IF variant = "pico"
       THEN pc' = "drain" /\ UNCHANGED <<file, seq, hist>>
       ELSE /\ seq' = seq + 1
            /\ pc' = "loop"
            /\ UNCHANGED <<file, hist>>
    /\ UNCHANGED <<srvVars, netVars, variant, client, qos, wifi, fs_is_ready,
                   current_delay, payload, call, ret, drain, obs, dobs>>

\* transmitStoredData: the mount check and the open of the file for reading.
DrainOpen ==
    /\ pc = "drain"
    /\ IF ~fs_is_ready
       THEN pc' = "drain_exit" /\ UNCHANGED <<current_delay, drain, dobs>>
       ELSE IF ~file.exists
       THEN /\ current_delay' = IF variant = "pico" THEN BASE_DELAY_MS
                                ELSE current_delay
            /\ pc' = "drain_exit"
            /\ UNCHANGED <<drain, dobs>>
       ELSE /\ drain' = [lines |-> file.lines, failed_messages |-> <<>>,
                         count |-> 0]
            /\ dobs' = [start |-> file.lines, tx |-> 0, link_down |-> ~wifi,
                        done |-> FALSE, attempted |-> <<>>, results |-> <<>>]
            /\ pc' = "drain_next"
            /\ UNCHANGED current_delay
    /\ UNCHANGED <<srvVars, netVars, variant, client, qos, wifi, fs_is_ready, seq, file,
                   payload, call, ret, obs,
                   hist>>

\* transmitStoredData: the next line is read; an unparseable line is skipped, a
\* parseable one is sent with sendWithQoS(line, stored_seq).
DrainNext ==
    /\ pc = "drain_next"
    /\ drain.lines # <<>>
    /\ IF ~Head(drain.lines).parse
       THEN /\ drain' = [drain EXCEPT !.lines = Tail(@)]
            /\ UNCHANGED <<pc, call, obs, dobs>>
       ELSE /\ call' = [payload |-> Head(drain.lines),
                        current_seq |-> SeqOfLine(Head(drain.lines)),
                        retry_count |-> 0,
                        backoff_ms |-> INITIAL_BACKOFF_MS,
                        delivered |-> FALSE, caller |-> "drain"]
            /\ obs' = NoObs
            /\ dobs' = [dobs EXCEPT !.attempted = Append(@, Head(drain.lines))]
            /\ pc' = "sq_entry"
            /\ UNCHANGED drain
    /\ UNCHANGED <<srvVars, netVars, variant, client, qos, wifi, fs_is_ready, seq, file,
                   current_delay, payload, ret, hist>>

\* Variant: the pass ends at the first failed replay, keeping the rest unsent.
DrainRetStops ==
    /\ pc = "sq_ret"
    /\ call.caller = "drain"
    /\ drain' = [lines |-> IF ret THEN Tail(drain.lines) ELSE <<>>,
                 failed_messages |->
                    IF ret THEN drain.failed_messages
                    ELSE drain.failed_messages \o drain.lines,
                 count |-> drain.count + 1]
    /\ dobs' = [dobs EXCEPT !.results = Append(@, ret)]
    /\ hist' = IF ret THEN [hist EXCEPT !.redelivered = @ \cup {call.payload}]
               ELSE hist
    /\ pc' = "drain_next"
    /\ UNCHANGED <<srvVars, netVars, variant, client, qos, wifi, fs_is_ready, seq, file,
                   current_delay, payload, call, ret, obs>>

\* transmitStoredData after a replay: a failed line is kept; count++.
DrainRet ==
    /\ pc = "sq_ret"
    /\ call.caller = "drain"
    /\ drain' = [lines |-> Tail(drain.lines),
                 failed_messages |->
                    IF ret THEN drain.failed_messages
                    ELSE Append(drain.failed_messages, Head(drain.lines)),
                 count |-> drain.count + 1]
    /\ dobs' = [dobs EXCEPT !.results = Append(@, ret)]
    /\ hist' = IF ret THEN [hist EXCEPT !.redelivered = @ \cup {call.payload}]
               ELSE hist
    /\ pc' = "drain_next"
    /\ UNCHANGED <<srvVars, netVars, variant, client, qos, wifi, fs_is_ready, seq, file,
                   current_delay, payload, call, ret, obs>>

\* transmitStoredData at the end of the file: the delay is adapted
\* (cli_pico.c) and the file is rewritten with the failed lines, or removed.
DrainFinish ==
    /\ pc = "drain_next"
    /\ drain.lines = <<>>
    /\ current_delay' = IF variant = "pico"
                        THEN Pacing(Len(drain.failed_messages))
                        ELSE current_delay
    /\ file' = Rewrite(file, drain.failed_messages, drain.count)
    /\ dobs' = [dobs EXCEPT !.done = TRUE]
    /\ pc' = "drain_exit"
    /\ UNCHANGED <<srvVars, netVars, variant, client, qos, wifi, fs_is_ready, seq,
                   payload, call, ret, drain, obs,
                   hist>>

\* Power is lost during the rewrite of cli.c (SPIFFS): the file was truncated
\* by the open for writing and only the first k failed messages were written.
RewriteCrash ==
    /\ pc = "drain_next"
    /\ variant = "cli"
    /\ drain.lines = <<>>
    /\ drain.count > 0
    /\ drain.failed_messages # <<>>
    /\ \E k \in 0..(Len(drain.failed_messages) - 1) :
          file' = [exists |-> TRUE, lines |-> SubSeq(drain.failed_messages, 1, k)]
    /\ pc' = "off"
    /\ UNCHANGED <<srvVars, netVars, variant, client, qos, wifi, fs_is_ready, seq,
                   current_delay, payload, call, ret, drain, obs, dobs, hist>>

\* transmitStoredData returned: to the end of loop() (seq++), or of setup().
DrainExit ==
    /\ pc = "drain_exit"
    /\ seq' = IF variant = "pico" THEN seq + 1 ELSE seq
    /\ dobs' = [dobs EXCEPT !.done = FALSE]
    /\ pc' = "loop"
    /\ UNCHANGED <<srvVars, netVars, variant, client, qos, wifi, fs_is_ready, file,
                   current_delay, payload, call, ret, drain, obs,
                   hist>>

\* The link goes down, and comes back.
WifiDown ==
    /\ wifi
    /\ wifi' = FALSE
    /\ UNCHANGED <<srvVars, netVars, variant, client, qos, fs_is_ready, seq, file,
                   current_delay, pc, payload, call, ret, drain, obs, dobs,
                   hist>>

WifiUp ==
    /\ ~wifi
    /\ wifi' = TRUE
    /\ dobs' = [dobs EXCEPT !.link_down = FALSE]
    /\ UNCHANGED <<srvVars, netVars, variant, client, qos, fs_is_ready, seq, file,
                   current_delay, pc, payload, call, ret, drain, obs,
                   hist>>

\* The server receives the oldest datagram in flight; its ACKs reach the
\* client's socket, or are lost.
SrvReceive ==
    /\ toSrv # <<>>
    /\ Receive(Head(toSrv), ClientAddr)
    /\ toSrv' = Tail(toSrv)
    /\ \/ /\ Len(toCli) + Len(last'.acks) <= MaxInFlight
          /\ toCli' = toCli \o [k \in 1..Len(last'.acks) |-> Wire(last'.acks[k])]
       \/ toCli' = toCli
    /\ UNCHANGED cliVars

InitSys ==
    /\ ServerBoot
    /\ ClientBoot
    /\ toSrv = <<>>
    /\ toCli = <<>>
    /\ variant \in {"cli", "pico"}
    /\ qos \in {0, 1}
    /\ wifi \in BOOLEAN
    /\ fs_is_ready \in BOOLEAN
    /\ file \in StoredFiles
    /\ StoredRecord \in {file.lines[i] : i \in DOMAIN file.lines} => variant = "cli"
    /\ pc = "setup"

NextSys ==
    \/ Setup
    \/ Reconnect
    \/ Sense
    \/ SenseFail
    \/ SqEntry
    \/ SqSend
    \/ SqRecv
    \/ SqTimeout
    \/ LiveRet
    \/ DrainOpen
    \/ DrainNext
    \/ DrainRet
    \/ DrainFinish
    \/ RewriteCrash
    \/ DrainExit
    \/ WifiDown
    \/ WifiUp
    \/ SrvReceive

SpecSys == InitSys /\ [][NextSys]_vars

----------------------------------------------------------------------------
\* The client, the network and the server with its MQTT broker,
\* without power loss; the registry already holds another device whose
\* temperature is 2.5 degrees above the client's, so that every accepted
\* record of the client raises a differential alert

OtherRecord ==
    Record(JString(OtherId), JNumber(2250), JNumber(5000), JString(DateStr),
           JNumber(0), JNumber(1))

InitLoops ==
    LET r == Handle(<<>>, 0, OtherRecord, OtherAddr) IN
    /\ devices = r.devices
    /\ last = r.out
    /\ clock = 0
    /\ applied = [s \in 0..MaxSeq |-> 0]
    /\ proc = ProcBoot
    /\ ClientBoot
    /\ toSrv = <<>>
    /\ toCli = <<>>
    /\ variant \in {"cli", "pico"}
    /\ qos = 1
    /\ wifi \in BOOLEAN
    /\ fs_is_ready \in BOOLEAN
    /\ file = NoFile
    /\ pc = "setup"

\* A step of the client inside setup() or inside an iteration of loop().
ClientStep ==
    \/ Setup
    \/ SqEntry
    \/ SqSend
    \/ SqTimeout
    \/ LiveRet
    \/ DrainOpen
    \/ DrainNext
    \/ DrainRet
    \/ DrainFinish
    \/ DrainExit

NextLoops ==
    \/ ClientStep
    \/ Reconnect
    \/ Sense
    \/ SenseFail
    \/ SqRecv
    \/ WifiDown
    \/ WifiUp
    \/ SrvReceive
    \/ BrokerDown
    \/ BrokerUp

\* The client is sequential code whose waits and delays are bounded: while it
\* is inside setup() or an iteration, it takes its next step.
SpecLoops == InitLoops /\ [][NextLoops]_vars /\ WF_vars(ClientStep)

----------------------------------------------------------------------------
\* The client of cli_pico.c with anything arriving in its UDP socket: the
\* server is left out, datagrams of any origin are put into the socket

\* ACKs of the client's records 0 and 1, an ACK of another device, a datagram
\* that is not JSON, one of another type, and ACKs that lack the seq, carry
\* it as a string, or lack the id.
AckPackets ==
    {Wire(Ack(DEVICE_ID, s, ClientAddr)) : s \in {0, 1}}
    \cup {Wire(Ack(OtherId, 0, ClientAddr)),
          Garbage,
          [Wire(Ack(DEVICE_ID, 0, ClientAddr)) EXCEPT !.type = JString(Str("NAK", 3))],
          [Wire(Ack(DEVICE_ID, 0, ClientAddr)) EXCEPT !.seq = JAbsent],
          [Wire(Ack(DEVICE_ID, 0, ClientAddr)) EXCEPT !.seq = JString(Str("1", 1))],
          [Wire(Ack(DEVICE_ID, 0, ClientAddr)) EXCEPT !.id = JAbsent]}

\* A datagram arrives in the client's socket.
Incoming ==
    /\ Len(toCli) < MaxInFlight
    /\ \E p \in AckPackets : toCli' = Append(toCli, p)
    /\ UNCHANGED <<srvVars, toSrv, cliVars>>

InitAck ==
    /\ ServerBoot
    /\ ClientBoot
    /\ toSrv = <<>>
    /\ toCli = <<>>
    /\ variant = "pico"
    /\ qos = 1
    /\ wifi = TRUE
    /\ fs_is_ready = FALSE
    /\ file = NoFile
    /\ pc = "setup"

NextAck ==
    \/ Setup
    \/ Reconnect
    \/ Sense
    \/ SqEntry
    \/ SqSend
    \/ SqRecv
    \/ SqTimeout
    \/ LiveRet
    \/ DrainOpen
    \/ DrainExit
    \/ Incoming

SpecAck == InitAck /\ [][NextAck]_vars

----------------------------------------------------------------------------
\* The client of cli_pico.c out of reach of the server, started with a queue
\* file that an earlier session filled up to the throttling threshold

\* THROTTLING_THRESHOLD records of an earlier session.
Backlog ==
    [exists |-> TRUE,
     lines |-> [i \in 1..THROTTLING_THRESHOLD |->
                    MkPayload(2000, 5000, PrevSeq + i, 1)]]

InitPace ==
    /\ ServerBoot
    /\ ClientBoot
    /\ toSrv = <<>>
    /\ toCli = <<>>
    /\ variant = "pico"
    /\ qos = 1
    /\ wifi \in BOOLEAN
    /\ fs_is_ready = TRUE
    /\ file = Backlog
    /\ pc = "setup"

\* No datagram is received by the server and none reaches the client.
NextPace ==
    \/ Setup
    \/ Reconnect
    \/ Sense
    \/ SenseFail
    \/ SqEntry
    \/ SqSend
    \/ SqTimeout
    \/ LiveRet
    \/ WifiDown
    \/ WifiUp

SpecPace == InitPace /\ [][NextPace]_vars

\* The link check and the send are straight-line code, and the 800 ms window
\* of waitForAck runs out.
SpecPaceFair ==
    /\ SpecPace
    /\ WF_vars(SqEntry)
    /\ WF_vars(SqSend)
    /\ WF_vars(SqTimeout)

----------------------------------------------------------------------------
\* The backoff update and the pacing computation on their own

\* Bounds: how many times the backoff update is applied, and the largest
\* backlog the pacing is computed for.
MaxAttempts == 8
MaxBacklog == 40

InitFn ==
    /\ ServerBoot
    /\ ClientBoot
    /\ toSrv = <<>>
    /\ toCli = <<>>
    /\ variant = "pico"
    /\ qos = 1
    /\ wifi = TRUE
    /\ fs_is_ready = TRUE
    /\ file = NoFile
    /\ pc = "fn"

\* sendWithQoS after a missed window: delay(backoff_ms), then the update of
\* backoff_ms; applied from INITIAL_BACKOFF_MS on, without the retry limit.
BackoffStep ==
    /\ pc = "fn"
    /\ call.retry_count < MaxAttempts
    /\ call' = [call EXCEPT !.retry_count = @ + 1,
                            !.backoff_ms = NextBackoff(@)]
    /\ obs' = [obs EXCEPT !.delays = Append(@, call.backoff_ms)]
    /\ UNCHANGED <<srvVars, netVars, variant, client, qos, wifi, fs_is_ready, seq, file,
                   current_delay, pc, payload, ret, drain, dobs, hist>>

\* transmitStoredData with one more failed message: the pacing is computed
\* from failed_messages.size().
BacklogStep ==
    /\ pc = "fn"
    /\ Len(drain.failed_messages) < MaxBacklog
    /\ drain' = [drain EXCEPT !.failed_messages = Append(@, Malformed)]
    /\ current_delay' = Pacing(Len(drain.failed_messages) + 1)
    /\ UNCHANGED <<srvVars, netVars, variant, client, qos, wifi, fs_is_ready, seq, file,
                   pc, payload, call, ret, obs, dobs, hist>>

NextFn == BackoffStep \/ BacklogStep

SpecFn == InitFn /\ [][NextFn]_vars

----------------------------------------------------------------------------
\* Claims about one pass of the receive loop

\* The datagram is parseable and has a string id and numeric readings.
WellFormed(d) ==
    /\ d.parse
    /\ d.id.kind = "string"
    /\ d.temperature.kind = "number"
    /\ d.relativeHumidity.kind = "number"

SeqOf(d) == IF d.seq.kind = "number" /\ d.seq.v >= 0 THEN d.seq.v ELSE -1
QosOf(d) == IF d.qos.kind = "number" THEN d.qos.v ELSE 0
IdOf(d) == Str(d.id.s, d.id.n)

\* The index of the registry entry the server finds for the id, 0 if none.
Known(id) ==
    IF \E i \in 1..Len(devices) : devices[i].id = id
    THEN CHOOSE i \in 1..Len(devices) :
            devices[i].id = id /\ \A j \in 1..(i - 1) : devices[j].id # id
    ELSE 0

\* A qos 1 record whose seq is the last_seq of its device, has_seq being set.
IsRepeat(d) ==
    /\ WellFormed(d)
    /\ QosOf(d) = 1
    /\ Known(IdOf(d)) # 0
    /\ devices[Known(IdOf(d))].has_seq = 1
    /\ SeqOf(d) = devices[Known(IdOf(d))].last_seq

\* The registry has the device, or room for it.
HasRoom(d) == Known(IdOf(d)) # 0 \/ Len(devices) < MAX_DEVICES

\* The entry the pass works on: the one found, or the one appended.
Slot(d) == IF Known(IdOf(d)) # 0 THEN Known(IdOf(d)) ELSE Len(devices) + 1

\* The dateObserved the registry keeps of a record: its string cut to 63
\* characters, the empty string if the item is not a string.
KeptDate(d) ==
    IF d.dateObserved.kind = "string"
    THEN Str(d.dateObserved.s, Min(d.dateObserved.n, 63))
    ELSE EmptyStr

\* The registry holds the record's dateObserved as it was sent.
HoldsDate(dev, d) ==
    /\ d.dateObserved.kind = "string"
    /\ dev.dateObserved = Str(d.dateObserved.s, d.dateObserved.n)

\* The pass record of the step is that of the well-formed datagram x[1] from
\* address x[2].  This follows from Receive(x[1], x[2]); stated before it, it
\* spares evaluating Receive for the other arrivals.
Arrived(x) ==
    /\ WellFormed(x[1])
    /\ last'.from = x[2]
    /\ last'.id = IdOf(x[1])
    /\ last'.seq = SeqOf(x[1])
    /\ last'.qos = QosOf(x[1])

\* C2 (as claimed): the same (id, seq) qos 1 record received twice in a row:
\* the two passes together store one reading, run one alert evaluation and
\* send two ACKs carrying (id, seq).
C2Claim ==
    [][\A x \in Arrivals :
        (/\ Arrived(x)
         /\ QosOf(x[1]) = 1 /\ SeqOf(x[1]) >= 0
         /\ last.outcome = "accepted" /\ last.qos = 1
         /\ last.id = IdOf(x[1]) /\ last.seq = SeqOf(x[1])
         /\ Receive(x[1], x[2]))
        => /\ last.stores + last'.stores = 1
           /\ last.evals + last'.evals = 1
           /\ Len(last.acks) + Len(last'.acks) = 2
           /\ \A k \in 1..Len(last'.acks) :
                 /\ last'.acks[k].id = IdOf(x[1])
                 /\ last'.acks[k].seq = SeqOf(x[1])]_vars

\* C3 (as claimed): a repeated qos 1 record gets one ACK, raises no alert and
\* leaves every field of every DeviceState as it was.
C3Claim ==
    [][\A x \in Arrivals :
        (Arrived(x) /\ IsRepeat(x[1]) /\ Receive(x[1], x[2]))
        => /\ last'.acks = <<Ack(IdOf(x[1]), SeqOf(x[1]), x[2])>>
           /\ last'.alerts = <<>>
           /\ devices' = devices]_vars

\* C3 (amended): a repeated qos 1 record gets one ACK to its source, raises no
\* alert and is not stored; the readings, dateObserved, has_seq and last_seq of
\* every device stay, no other device changes, and the device's address and
\* last_seen become the datagram's source and the current time.
C3Thm ==
    [][\A x \in Arrivals :
        (Arrived(x) /\ IsRepeat(x[1]) /\ Receive(x[1], x[2]))
        => /\ last'.acks = <<Ack(IdOf(x[1]), SeqOf(x[1]), x[2])>>
           /\ last'.alerts = <<>>
           /\ last'.evals = 0
           /\ last'.stores = 0
           /\ devices' = [devices EXCEPT ![Known(IdOf(x[1]))].addr = x[2],
                                         ![Known(IdOf(x[1]))].last_seen = clock]]_vars

\* C3 witness: a duplicate was answered, from an address and at a time other
\* than those of the pass that created the entry.
C3Witness ==
    /\ last.outcome = "duplicate"
    /\ Len(last.acks) = 1
    /\ last.from = OtherAddr
    /\ clock = 1
    /\ \E i \in 1..Len(devices) :
          devices[i].id = last.id /\ devices[i].last_seen = 1
          /\ devices[i].addr = OtherAddr /\ devices[i].dateObserved = Str("LONG_DATE", 63)

\* A qos 1 record with a seq that is not a repeat, the registry having the
\* device or room for it.
IsFresh(d) ==
    /\ WellFormed(d)
    /\ QosOf(d) = 1
    /\ SeqOf(d) >= 0
    /\ HasRoom(d)
    /\ ~IsRepeat(d)

\* C4 (as claimed): after a fresh qos 1 record the device holds the record's
\* temperature, humidity and dateObserved, has_seq = 1 and last_seq = seq, one
\* ACK went to the source and the alert evaluation ran once.
C4Claim ==
    [][\A x \in Arrivals :
        (Arrived(x) /\ IsFresh(x[1]) /\ Receive(x[1], x[2]))
        => /\ Len(devices') >= Slot(x[1])
           /\ devices'[Slot(x[1])].temperature = x[1].temperature.v
           /\ devices'[Slot(x[1])].humidity = x[1].relativeHumidity.v
           /\ HoldsDate(devices'[Slot(x[1])], x[1])
           /\ devices'[Slot(x[1])].has_seq = 1
           /\ devices'[Slot(x[1])].last_seq = SeqOf(x[1])
           /\ last'.acks = <<Ack(IdOf(x[1]), SeqOf(x[1]), x[2])>>
           /\ last'.evals = 1]_vars

\* C4 (amended): as claimed, except that dateObserved holds the record's
\* dateObserved string cut to 63 characters, and is empty if the record's
\* dateObserved is not a string.
C4Thm ==
    [][\A x \in Arrivals :
        (Arrived(x) /\ IsFresh(x[1]) /\ Receive(x[1], x[2]))
        => /\ Len(devices') >= Slot(x[1])
           /\ devices'[Slot(x[1])].temperature = x[1].temperature.v
           /\ devices'[Slot(x[1])].humidity = x[1].relativeHumidity.v
           /\ devices'[Slot(x[1])].dateObserved = KeptDate(x[1])
           /\ devices'[Slot(x[1])].has_seq = 1
           /\ devices'[Slot(x[1])].last_seq = SeqOf(x[1])
           /\ last'.acks = <<Ack(IdOf(x[1]), SeqOf(x[1]), x[2])>>
           /\ last'.evals = 1]_vars

\* C4 witness: a qos 1 record with a new seq was accepted over an entry that
\* already had one, its numeric dateObserved kept as the empty string.
C4Witness ==
    /\ last.outcome = "accepted"
    /\ last.qos = 1
    /\ last.seq = 1
    /\ last.acks = <<Ack(DEVICE_ID, 1, ClientAddr)>>
    /\ \E i \in 1..Len(devices) :
          /\ devices[i].id = DEVICE_ID
          /\ devices[i].last_seq = 1
          /\ devices[i].temperature = 2000
          /\ devices[i].dateObserved = EmptyStr

\* A well-formed record with qos 0 or no qos.
IsBestEffort(d) ==
    /\ WellFormed(d)
    /\ d.qos.kind = "absent" \/ (d.qos.kind = "number" /\ d.qos.v = 0)

\* C5 (as claimed): a qos 0 record is always accepted: readings and
\* dateObserved updated, alert evaluation run, no ACK, has_seq and last_seq as
\* before (those of a new entry for a new device).
C5Claim ==
    [][\A x \in Arrivals :
        (Arrived(x) /\ IsBestEffort(x[1]) /\ Receive(x[1], x[2]))
        => /\ Len(devices') >= Slot(x[1])
           /\ devices'[Slot(x[1])].temperature = x[1].temperature.v
           /\ devices'[Slot(x[1])].humidity = x[1].relativeHumidity.v
           /\ HoldsDate(devices'[Slot(x[1])], x[1])
           /\ last'.evals = 1
           /\ last'.acks = <<>>
           /\ devices'[Slot(x[1])].has_seq =
                 (IF Known(IdOf(x[1])) # 0 THEN devices[Slot(x[1])].has_seq ELSE 0)
           /\ devices'[Slot(x[1])].last_seq =
                 (IF Known(IdOf(x[1])) # 0 THEN devices[Slot(x[1])].last_seq ELSE -1)]_vars

\* C5 (amended): a qos 0 record is accepted whenever the registry has the
\* device or room for it (it is discarded when the registry is full), with
\* dateObserved kept as a string cut to 63 characters or empty; no ACK is sent
\* for it in any case.
C5Thm ==
    [][\A x \in Arrivals :
        (Arrived(x) /\ IsBestEffort(x[1]) /\ Receive(x[1], x[2]))
        => /\ last'.acks = <<>>
           /\ HasRoom(x[1]) =>
               /\ Len(devices') >= Slot(x[1])
               /\ devices'[Slot(x[1])].temperature = x[1].temperature.v
               /\ devices'[Slot(x[1])].humidity = x[1].relativeHumidity.v
               /\ devices'[Slot(x[1])].dateObserved = KeptDate(x[1])
               /\ last'.evals = 1
               /\ devices'[Slot(x[1])].has_seq =
                     (IF Known(IdOf(x[1])) # 0 THEN devices[Slot(x[1])].has_seq ELSE 0)
               /\ devices'[Slot(x[1])].last_seq =
                     (IF Known(IdOf(x[1])) # 0 THEN devices[Slot(x[1])].last_seq ELSE -1)
           /\ ~HasRoom(x[1]) => devices' = devices /\ last'.evals = 0]_vars

\* C5 witness: a qos 0 record carrying the device's last_seq was accepted with
\* no ACK, over an entry that keeps has_seq and last_seq.
C5Witness ==
    /\ last.outcome = "accepted"
    /\ last.qos = 0
    /\ last.seq = 1
    /\ last.acks = <<>>
    /\ \E i \in 1..Len(devices) :
          /\ devices[i].id = last.id
          /\ devices[i].has_seq = 1
          /\ devices[i].last_seq = 1
          /\ devices[i].temperature = 2250

\* C6 (as claimed): whenever a pass has sent ACK(id, s), the registry holds a
\* device with that id whose has_seq is set and whose last_seq is s; no ACK is
\* sent by a pass that discarded its datagram or handled a qos 0 record.
C6Claim ==
    /\ \A k \in 1..Len(last.acks) :
          \E i \in 1..Len(devices) :
             /\ devices[i].id = last.acks[k].id
             /\ devices[i].has_seq = 1
             /\ devices[i].last_seq = last.acks[k].seq
    /\ (last.outcome \in {"invalid_json", "missing_fields", "missing_seq",
                          "registry_full"} \/ last.qos # 1)
          => last.acks = <<>>

----------------------------------------------------------------------------
\* Claims about the client, the network and the server together

\* C1 (as claimed): within a device session the server stores each qos 1
\* record (DEVICE_ID, seq), and evaluates alerts for it, at most once.
C1Claim == \A s \in DOMAIN applied : applied[s] <= 1

\* C7 (as claimed): the last_seq of a device never decreases in a session
\* (the record an earlier session left in the file is not counted).
C7Claim ==
    [][\A i \in 1..Len(devices) :
          (devices[i].last_seq # PrevSeq /\ devices'[i].last_seq # PrevSeq)
          => devices'[i].last_seq >= devices[i].last_seq]_vars

\* The client is inside sendWithQoS.
InCall == pc \in {"sq_entry", "sq_send", "sq_wait"}

\* sendWithQoS has just returned.
Returned == pc = "sq_ret"

\* The fairness the client's scheduling gives: the link check and the send are
\* straight-line code, and the 800 ms window of waitForAck runs out.
SpecSysFair ==
    /\ SpecSys
    /\ WF_vars(SqEntry)
    /\ WF_vars(SqSend)
    /\ WF_vars(SqTimeout)

\* C8: a call of sendWithQoS made with the link connected returns; it returns
\* true exactly when a matching ACK was read, at once and without sending
\* again, and false exactly when the MAX_RETRIES-th wait ran out, after
\* MAX_RETRIES transmissions.
C8Safe ==
    /\ InCall => /\ ~obs.matched
                 /\ obs.tx <= MAX_RETRIES
                 /\ call.retry_count < MAX_RETRIES
    /\ ~obs.tx_after_match
    /\ (Returned /\ obs.link_up) =>
          /\ ret = obs.matched
          /\ obs.tx \in 1..MAX_RETRIES
          /\ ~ret => (obs.tx = MAX_RETRIES /\ call.retry_count = MAX_RETRIES)

C8Thm == []C8Safe /\ (InCall ~> Returned)

\* C8 witness: a call returned true on the ACK of its third transmission.
C8Witness ==
    /\ Returned
    /\ obs.link_up
    /\ ret
    /\ obs.tx = 3
    /\ call.payload.qos.v = 1

\* C9 (as claimed): sendWithQoS of a record whose qos is 0, the link being
\* connected, sends one datagram, waits for no ACK, does not retry and returns
\* true.
C9Claim ==
    (Returned /\ obs.link_up /\ call.payload.qos.v = 0)
    => /\ ret
       /\ obs.tx = 1
       /\ obs.waits = 0
       /\ call.retry_count = 0

\* C10: a call of sendWithQoS made with the link down returns false with no
\* datagram sent, no wait and no backoff delay; and a replay pass over the file
\* during which the link stays down sends nothing and leaves in the file its
\* parseable lines, in their order.
C10Thm ==
    /\ (Returned /\ ~obs.link_up) =>
          /\ ~ret
          /\ obs.tx = 0
          /\ obs.waits = 0
          /\ obs.delays = <<>>
    /\ (pc = "drain_exit" /\ dobs.done /\ dobs.link_down) =>
          /\ dobs.tx = 0
          /\ file.exists
          /\ SelectSeq(file.lines, LAMBDA l : l.parse)
                = SelectSeq(dobs.start, LAMBDA l : l.parse)

\* C10 witness: a replay pass over a stored record ended with the link down
\* from its start.
C10Witness ==
    /\ pc = "drain_exit"
    /\ dobs.done
    /\ dobs.link_down
    /\ dobs.start = <<Malformed, MkPayload(2000, 5000, 0, 1)>>
    /\ file.lines = <<MkPayload(2000, 5000, 0, 1)>>
    /\ ~ret
    /\ ~obs.link_up

----------------------------------------------------------------------------
\* Claims about the offline queue

\* How many entries of the sequence s are equal to r.
CountIn(s, r) == Cardinality({i \in DOMAIN s : s[i] = r})

\* The parseable lines of a file, in file order.
Parseable(s) == SelectSeq(s, LAMBDA l : l.parse)

\* The entries of w whose replay, as recorded in res, returned false.
RECURSIVE Kept(_, _)
Kept(w, res) ==
    IF w = <<>> \/ res = <<>> THEN <<>>
    ELSE (IF Head(res) THEN <<>> ELSE <<Head(w)>>) \o Kept(Tail(w), Tail(res))

\* A replay pass has just ended with the rewrite step.
PassDone == pc = "drain_exit" /\ dobs.done

\* C12: while the device runs, a qos 1 record that a live sendWithQoS dropped
\* and logDataToFile wrote is in the file exactly once, through every replay
\* pass in which its replay fails, until a replay of it returns true.
C12Thm ==
    pc # "off" =>
       \A r \in hist.dropped \ hist.redelivered :
          r.qos.v = 1 => CountIn(file.lines, r) = 1

\* C12 witness: a dropped qos 1 record is still in the file after a replay
\* pass in which its replay failed.
C12Witness ==
    /\ PassDone
    /\ dobs.results = <<FALSE>>
    /\ dobs.tx = MAX_RETRIES
    /\ \E r \in hist.dropped \ hist.redelivered :
          /\ r.qos.v = 1
          /\ dobs.attempted = <<r>>
          /\ file.lines = <<r>>

\* C13 (as claimed): every parseable entry of the file is a record that failed
\* qos 1 delivery; no record with qos 0 is in the file.
C13Claim ==
    \A i \in DOMAIN file.lines :
       file.lines[i].parse => file.lines[i].qos.v = 1

C15Claim ==
    PassDone =>
       /\ \A i \in DOMAIN file.lines : file.lines[i].parse
       /\ \A i \in DOMAIN dobs.attempted : dobs.attempted[i].parse

\* C16 (as claimed): when power is lost during the rewrite, the file holds
\* either what it held before the pass or all the messages that failed.
C16Claim ==
    (pc = "off" /\ drain.count > 0) =>
       \/ file.lines = dobs.start
       \/ file.lines = drain.failed_messages

\* C17: a replay pass calls sendWithQoS once for each parseable entry, in file
\* order, whatever the earlier calls returned.
C17Thm ==
    /\ pc \in {"drain_next", "drain_exit"} /\ dobs.start # <<>> /\ ~dobs.done
          => /\ Len(dobs.results) = Len(dobs.attempted)
             /\ Len(dobs.attempted) <= Len(Parseable(dobs.start))
             /\ dobs.attempted =
                   SubSeq(Parseable(dobs.start), 1, Len(dobs.attempted))
    /\ PassDone
          => /\ dobs.attempted = Parseable(dobs.start)
             /\ Len(dobs.results) = Len(dobs.attempted)

\* C17 witness: the replay of the first stored record failed and the second
\* was sent after it and delivered.
C17Witness ==
    /\ PassDone
    /\ Len(dobs.attempted) = 2
    /\ dobs.attempted[1].seq.v < dobs.attempted[2].seq.v
    /\ dobs.results = <<FALSE, TRUE>>

\* C18: when the file system is not mounted or the file cannot be opened for
\* append, the dropped record leaves the file as it was, seq is incremented
\* and the client is back in loop(), where (the MQTT client being connected)
\* the next reading is generated and sent.
C18Thm ==
    /\ [][(pc = "sq_ret" /\ call.caller = "live" /\ ~ret /\ ~fs_is_ready
            /\ pc' # pc)
             => hist'.lost = hist.lost \cup {payload}]_vars
    /\ [][hist'.lost # hist.lost
             => /\ file' = file
                /\ seq' = seq + 1
                /\ pc' = "loop"]_vars
    /\ []((pc = "loop" /\ seq < MaxSeq /\ client.connected) => ENABLED Sense)

\* C18 witness: after a record was dropped with the file system not mounted,
\* the next reading is on its way.
C18Witness ==
    /\ ~fs_is_ready
    /\ hist.lost # {}
    /\ pc = "sq_wait"
    /\ call.caller = "live"
    /\ call.current_seq = 1
    /\ obs.tx = 1
    /\ ~file.exists

\* C20 (as claimed): the queue stays below a fixed bound while delivery fails:
\* it never holds every record the client has been let to generate in the
\* session.
C20Claim ==
    Cardinality({i \in DOMAIN file.lines :
                    file.lines[i] \in hist.dropped /\ file.lines[i].qos.v = 1})
       < MaxSeq

----------------------------------------------------------------------------
\* Claims about the backoff and the pacing

\* C11: after n updates backoff_ms is min(200 * 2^n, 5000): the delays are
\* 200, 400, 800, 1600, 3200 and then 5000 for every further retry, never
\* more than 5000.
C11Thm ==
    pc = "fn" =>
       /\ call.backoff_ms = Min(200 * 2^call.retry_count, 5000)
       /\ call.backoff_ms <= 5000
       /\ Len(obs.delays) = call.retry_count
       /\ \A i \in 1..Len(obs.delays) :
             /\ obs.delays[i] = Min(200 * 2^(i - 1), 5000)
             /\ i <= 6 => obs.delays[i] = <<200, 400, 800, 1600, 3200, 5000>>[i]
             /\ i > 6 => obs.delays[i] = 5000

\* C11 witness: the seventh update, two updates after the cap was reached.
C11Witness ==
    /\ pc = "fn"
    /\ call.retry_count = 7
    /\ obs.delays = <<200, 400, 800, 1600, 3200, 5000, 5000>>
    /\ call.backoff_ms = 5000

\* C19: the pacing interval of a backlog b is 5000 for b <= 10 and
\* min(5000 + (b - 10) * 2000, 60000) for b > 10; it lies in [5000, 60000]
\* and does not decrease when b grows.
C19Thm ==
    /\ [](pc = "fn" =>
           LET b == Len(drain.failed_messages) IN
           /\ current_delay = IF b <= 10 THEN 5000
                              ELSE Min(5000 + (b - 10) * 2000, 60000)
           /\ current_delay >= 5000
           /\ current_delay <= 60000
           /\ b = 0 => current_delay = 5000
           /\ b = 13 => current_delay = 11000)
    /\ [][pc = "fn" => current_delay' >= current_delay]_vars

\* C19 witness: a backlog of 13 paced at 11000 ms.
C19Witness ==
    /\ pc = "fn"
    /\ Len(drain.failed_messages) = 13
    /\ current_delay = 11000

----------------------------------------------------------------------------
----------------------------------------------------------------------------
\* Claims about discarded datagrams

\* C23: a datagram that does not parse as JSON, or whose id is missing or not
\* a string, or whose temperature or relativeHumidity is missing or not a
\* number, is discarded: the registry is left as it was, no ACK is sent, no
\* reading is stored and no alert is evaluated or raised; and the server can
\* always receive the next datagram.
C23Thm ==
    /\ [](ENABLED RecvAny)
    /\ [][\A x \in Arrivals :
            (~WellFormed(x[1]) /\ last'.from = x[2] /\ Receive(x[1], x[2]))
            => /\ devices' = devices
               /\ last'.acks = <<>>
               /\ last'.stores = 0
               /\ last'.evals = 0
               /\ last'.alerts = <<>>]_vars

\* C23 witness: a record without a mandatory field was discarded by a server
\* that holds a device with a recorded sequence number.
C23Witness ==
    /\ last.outcome = "missing_fields"
    /\ last.acks = <<>>
    /\ Len(devices) = 1
    /\ devices[1].id = DEVICE_ID
    /\ devices[1].has_seq = 1
    /\ devices[1].last_seq = 1

\* A well-formed qos 1 record from which no seq >= 0 can be extracted.
LacksSeq(d) == WellFormed(d) /\ QosOf(d) = 1 /\ SeqOf(d) = -1

\* C24: a qos 1 record whose seq is absent, not a number or negative is
\* discarded: the pass sends no ACK, stores no reading and evaluates no alert,
\* and every entry the registry held before the pass keeps its id, its
\* readings, its dateObserved, its has_seq and its last_seq.
C24Thm ==
    [][\A x \in Arrivals :
        (Arrived(x) /\ LacksSeq(x[1]) /\ Receive(x[1], x[2]))
        => /\ last'.acks = <<>>
           /\ last'.stores = 0
           /\ last'.evals = 0
           /\ last'.alerts = <<>>
           /\ Len(devices') >= Len(devices)
           /\ \A i \in 1..Len(devices) :
                 /\ devices'[i].id = devices[i].id
                 /\ devices'[i].temperature = devices[i].temperature
                 /\ devices'[i].humidity = devices[i].humidity
                 /\ devices'[i].dateObserved = devices[i].dateObserved
                 /\ devices'[i].has_seq = devices[i].has_seq
                 /\ devices'[i].last_seq = devices[i].last_seq]_vars

\* C24 witness: a qos 1 record without a usable seq was turned away; the entry
\* of its device keeps the reading and the seq of an earlier accepted record.
C24Witness ==
    /\ last.outcome = "missing_seq"
    /\ last.qos = 1
    /\ last.seq = -1
    /\ last.acks = <<>>
    /\ Len(devices) = 2
    /\ devices[2].id = last.id
    /\ devices[2].temperature = 2250
    /\ devices[2].has_seq = 1
    /\ devices[2].last_seq = 1

----------------------------------------------------------------------------
\* Claims about the capacity of the registry

\* The registry holds MAX_DEVICES entries.
Full == Len(devices) = MAX_DEVICES

\* C22: device_count never exceeds MAX_DEVICES.  When the registry is full, a
\* well-formed record of an id that is not in it is discarded (the registry
\* stays as it was, no ACK, nothing stored, no alert evaluation), while a
\* record of an id that is in it is processed as usual: a fresh qos 1 record
\* is stored and acknowledged, a repeated one is acknowledged again, a qos 0
\* record is stored without an ACK.
C22Thm ==
    /\ [](device_count <= MAX_DEVICES)
    /\ [][\A x \in Arrivals :
            (Arrived(x) /\ Full /\ Receive(x[1], x[2]))
            => /\ Len(devices') = MAX_DEVICES
               /\ Known(IdOf(x[1])) = 0
                    => /\ devices' = devices
                       /\ last'.acks = <<>>
                       /\ last'.stores = 0
                       /\ last'.evals = 0
               /\ (Known(IdOf(x[1])) # 0 /\ IsFresh(x[1]))
                    => /\ devices'[Slot(x[1])].temperature = x[1].temperature.v
                       /\ devices'[Slot(x[1])].humidity = x[1].relativeHumidity.v
                       /\ devices'[Slot(x[1])].has_seq = 1
                       /\ devices'[Slot(x[1])].last_seq = SeqOf(x[1])
                       /\ last'.acks = <<Ack(IdOf(x[1]), SeqOf(x[1]), x[2])>>
                       /\ last'.evals = 1
               /\ (Known(IdOf(x[1])) # 0 /\ IsRepeat(x[1]))
                    => last'.acks = <<Ack(IdOf(x[1]), SeqOf(x[1]), x[2])>>
               /\ (Known(IdOf(x[1])) # 0 /\ IsBestEffort(x[1]))
                    => /\ devices'[Slot(x[1])].temperature = x[1].temperature.v
                       /\ devices'[Slot(x[1])].humidity = x[1].relativeHumidity.v
                       /\ last'.acks = <<>>
                       /\ last'.evals = 1]_vars

\* C22 witness: the full registry turned away a record of an id it does not
\* hold, and holds the client's device with an acknowledged seq.
C22Witness ==
    /\ Full
    /\ last.outcome = "registry_full"
    /\ last.id = OtherId
    /\ last.acks = <<>>
    /\ \E i \in 1..Len(devices) :
          devices[i].id = DEVICE_ID /\ devices[i].has_seq = 1

----------------------------------------------------------------------------
\* Claims about the alert evaluation

\* How many alerts of a type a pass raised.
CountAlerts(alerts, type) ==
    Cardinality({k \in 1..Len(alerts) : alerts[k].type = type})

\* C25: for every accepted record the pass raises one temperature
\* out-of-range alert if the temperature is below 0.00 or above 50.00 and none
\* otherwise, and one humidity out-of-range alert if the humidity is below
\* 20.00 or above 80.00 and none otherwise; a reading on a bound raises none,
\* a reading one hundredth beyond it raises one.
C25Thm ==
    [][\A x \in AlertArrivals :
        (Arrived(x) /\ HasRoom(x[1]) /\ Receive(x[1], x[2]))
        => LET temp == x[1].temperature.v
               hum == x[1].relativeHumidity.v
               nt == CountAlerts(last'.alerts, "TEMPERATURE_OUT_OF_RANGE")
               nh == CountAlerts(last'.alerts, "HUMIDITY_OUT_OF_RANGE")
           IN /\ last'.outcome = "accepted"
              /\ nt = (IF temp < 0 \/ temp > 5000 THEN 1 ELSE 0)
              /\ nh = (IF hum < 2000 \/ hum > 8000 THEN 1 ELSE 0)
              /\ temp \in {0, 5000} => nt = 0
              /\ temp \in {-1, 5001} => nt = 1
              /\ hum \in {2000, 8000} => nh = 0
              /\ hum \in {1999, 8001} => nh = 1
              /\ \A k \in 1..Len(last'.alerts) :
                    last'.alerts[k].device = IdOf(x[1])]_vars

\* C25 witness: a record with temperature 50.01 and humidity 19.99 was
\* accepted and raised one alert of each kind.
C25Witness ==
    /\ last.outcome = "accepted"
    /\ \E i \in 1..Len(devices) :
          /\ devices[i].id = last.id
          /\ devices[i].temperature = 5001
          /\ devices[i].humidity = 1999
    /\ CountAlerts(last.alerts, "TEMPERATURE_OUT_OF_RANGE") = 1
    /\ CountAlerts(last.alerts, "HUMIDITY_OUT_OF_RANGE") = 1

IsDifferential(al) == al.type = "DIFFERENTIAL_ALERT"

\* The readings of two entries are 2.00 degrees or 5.00 percent apart, or more.
Far(a, b) ==
    \/ Abs(a.temperature - b.temperature) >= 200
    \/ Abs(a.humidity - b.humidity) >= 500

----------------------------------------------------------------------------
\* Claims about the server process

\* C28 (as claimed): when a shutdown signal has taken the server out of the
\* receive loop, the server is in a terminated state in which it has closed
\* the UDP socket, closed the alert log and stopped the keep-alive thread.
C28Claim ==
    proc.main # "recvfrom"
        => /\ proc.main = "terminated"
           /\ proc.closed = {"sockfd", "alert_log", "mqtt_thread"}

\* C29: no step of the keep-alive thread changes devices[] or device_count,
\* and every step that changes them is a pass of the receive loop, in which
\* the thread does not move.
C29Thm ==
    /\ [][(MqttYield \/ MqttSleep)
            => (devices' = devices /\ Len(devices') = Len(devices))]_vars
    /\ [][devices' # devices
            => /\ proc'.mqtt_thread = proc.mqtt_thread
               /\ last'.outcome \in {"accepted", "duplicate", "missing_seq"}
               /\ \E x \in ProcArrivals : Receive(x[1], x[2])]_vars

\* C29 witness: the keep-alive thread is in its sleep while the registry holds
\* two devices, the last pass having accepted a record.
C29Witness ==
    /\ proc.mqtt_thread = "usleep"
    /\ proc.main = "recvfrom"
    /\ Len(devices) = 2
    /\ last.outcome = "accepted"
    /\ last.alerts # <<>>

----------------------------------------------------------------------------
\* Claims about the loops

\* The client is inside an iteration of loop().
InIteration == pc \notin {"setup", "loop", "off"}

\* C27: whatever a pass of the receive loop met (a datagram of any kind, an
\* alert that could not be published), main is back at recvfrom after it; and
\* whatever happens in an iteration of the client's loop (delivery dropped,
\* record not stored, invalid reading), the iteration ends and loop() is
\* entered again.
C27Thm ==
    /\ [](proc.main = "recvfrom")
    /\ [](InIteration => <>(pc = "loop"))

\* C27 witness: the client is at the start of an iteration after it dropped a
\* record that it could not store, and the last pass of the server accepted a
\* record whose alert could not be published.
C27Witness ==
    /\ pc = "loop"
    /\ seq >= 2
    /\ hist.lost # {}
    /\ last.outcome = "accepted"
    /\ last.alerts # <<>>
    /\ proc.warnings > 0
    /\ proc.main = "recvfrom"

----------------------------------------------------------------------------
\* Claims about waitForAck

\* C30 (as claimed): waitForAck returns true only on reading a datagram that
\* is an ACK of (myId, mySeq); a datagram that is not one is consumed and the
\* wait goes on; and when the wait ends without a datagram being read, the
\* window has run out and the result is false (the retry is counted, and a
\* call that ends there returns false).
C30Claim ==
    /\ [][(pc = "sq_wait" /\ pc' = "sq_ret" /\ ret')
            => /\ toCli # <<>>
               /\ toCli' = Tail(toCli)
               /\ IsAckFor(Head(toCli), call.current_seq, DEVICE_ID)]_vars
    /\ [][(/\ pc = "sq_wait"
            /\ toCli # <<>>
            /\ toCli' = Tail(toCli)
            /\ ~IsAckFor(Head(toCli), call.current_seq, DEVICE_ID))
            => pc' = "sq_wait"]_vars
    /\ [][(pc = "sq_wait" /\ pc' # "sq_wait" /\ toCli' = toCli)
            => /\ call'.retry_count = call.retry_count + 1
               /\ pc' = "sq_ret" => ~ret']_vars

----------------------------------------------------------------------------
\* Claims about the pacing of the loop

\* C21 (as claimed): at the end of every iteration of loop() of the
\* adaptive-throttled client, current_delay is the pacing for the number of
\* entries the queue file holds at that moment, also after an iteration whose
\* live send failed and appended an entry.
C21Claim ==
    (variant = "pico" /\ pc = "loop" /\ seq > 0)
        => current_delay = Pacing(Len(file.lines))

----------------------------------------------------------------------------
\* Claims about a call of sendWithQoS that is never acknowledged

\* The call is about to transmit for the first time.
FirstSend == pc = "sq_send" /\ obs.tx = 0

\* The call has returned false after MAX_RETRIES transmissions, having slept
\* 200, 400, 800 and 1600 ms between them.
DroppedAfterFive ==
    /\ Returned
    /\ ~ret
    /\ obs.tx = 5
    /\ obs.waits = 5
    /\ obs.delays = <<200, 400, 800, 1600>>

\* C35: with no ACK ever arriving, a call of sendWithQoS that has passed the
\* link check transmits five times, sleeps 200, 400, 800 and 1600 ms after the
\* first four unacknowledged transmissions and nothing after the fifth, and
\* then returns false; a delay is slept only after a transmission, each is
\* below the 5000 ms cap, and the call never transmits a sixth time.
C35Thm ==
    /\ [](InCall => /\ obs.tx <= 5
                    /\ Len(obs.delays) <= 4
                    /\ pc = "sq_wait" => Len(obs.delays) = obs.tx - 1
                    /\ \A k \in 1..Len(obs.delays) :
                          /\ obs.delays[k] = <<200, 400, 800, 1600>>[k]
                          /\ obs.delays[k] < 5000)
    /\ []((Returned /\ obs.link_up) => DroppedAfterFive)
    /\ (FirstSend ~> DroppedAfterFive)

\* C35 witness: a call returned false after its fifth transmission, with the
\* four delays slept.
C35Witness ==
    /\ DroppedAfterFive
    /\ obs.link_up
    /\ call.retry_count = MAX_RETRIES
    /\ call.backoff_ms = 3200

----------------------------------------------------------------------------
\* Claims about the entries of the registry

\* C36 (as claimed): no two entries of the registry hold the same id string.
C36Claim ==
    \A i, j \in 1..Len(devices) : devices[i].id = devices[j].id => i = j


\* C37 (as claimed): an entry is added to the registry only by a pass that
\* accepts its record and stores the record's readings in the entry, so that
\* no entry holds the readings 0, 0 it is created with.
C37Claim ==
    [][Len(devices') > Len(devices)
        => /\ last'.outcome = "accepted"
           /\ last'.stores = 1]_vars


\* The step that ends an iteration of loop() which had a valid reading.
EndsIteration ==
    /\ pc' = "loop"
    /\ \/ pc = "sq_ret" /\ call.caller = "live"
       \/ pc = "drain_exit" /\ variant = "pico"

\* The records of this session that were dropped.
Generated == hist.dropped \cup hist.lost

\* C32: seq goes up by exactly one in the step that ends an iteration with a
\* valid reading, whether the record was delivered or dropped, and in no other
\* step (an invalid reading, a step of a drain pass, the drain of setup); the
\* record of the running iteration carries the current seq and every earlier
\* record of the session a smaller one, so no two share a seq; and a queued
\* record is replayed unchanged, under the seq it was stored with.
C32Thm ==
    /\ [][/\ EndsIteration => seq' = seq + 1 /\ payload.seq.v = seq
          /\ seq' # seq => EndsIteration]_vars
    /\ [](\A r \in Generated : r.seq.v < seq)
    /\ []((InIteration /\ call.caller = "live") => payload.seq.v = seq)
    /\ []((InCall /\ call.caller = "drain") =>
             /\ \E k \in 1..Len(dobs.start) : dobs.start[k] = call.payload
             /\ call.payload.seq.kind = "number"
             /\ call.current_seq = call.payload.seq.v)

\* C32 witness: a replay of the record an earlier iteration queued under seq 1
\* is under way, with seq 1, while the counter stands at 2.
C32Witness ==
    /\ InCall /\ call.caller = "drain"
    /\ call.payload \in hist.dropped
    /\ call.current_seq = 1
    /\ seq = 2


\* The record is an entry of the offline queue.
Queued(f, r) == \E i \in DOMAIN f.lines : f.lines[i] = r

\* C33 (as claimed): every record of the session that was dropped with the
\* storage available is in the queue unless a replay of it returned true, and a
\* well-formed entry leaves the queue only in a step after which a replay of it
\* has returned true.
C33Claim ==
    /\ [](\A r \in hist.dropped : Queued(file, r) \/ r \in hist.redelivered)
    /\ [][\A i \in DOMAIN file.lines :
             (file.lines[i].parse /\ ~Queued(file', file.lines[i]))
                => file.lines[i] \in hist'.redelivered]_vars


-----------------------------------------------------------------------------
\* A session of the device that starts with an empty queue, against a server
\* that has been running since an earlier session of the same device

\* The last record the server accepted in the earlier session: the device
\* counts seq from 0 after every restart (unsigned long seq = 0).
EarlierRecord(s) ==
    Record(JString(DEVICE_ID), JNumber(2100), JNumber(5000), JString(DateStr),
           JNumber(s), JNumber(1))

InitSession ==
    /\ \E s \in 0..(MaxSeq - 1) :
          devices = Handle(<<>>, 0, EarlierRecord(s), ClientAddr).devices
    /\ last = NoPass
    /\ clock = 0
    /\ applied = [s \in 0..MaxSeq |-> 0]
    /\ proc = ProcBoot
    /\ ClientBoot
    /\ toSrv = <<>>
    /\ toCli = <<>>
    /\ variant \in {"cli", "pico"}
    /\ qos = 1
    /\ wifi \in BOOLEAN
    /\ fs_is_ready = TRUE
    /\ file = NoFile
    /\ pc = "setup"

NextSession ==
    \/ Setup
    \/ Reconnect
    \/ Sense
    \/ SenseFail
    \/ SqEntry
    \/ SqSend
    \/ SqRecv
    \/ SqTimeout
    \/ LiveRet
    \/ DrainOpen
    \/ DrainNext
    \/ DrainRet
    \/ DrainFinish
    \/ DrainExit
    \/ WifiDown
    \/ WifiUp
    \/ SrvReceive

SpecSession == InitSession /\ [][NextSession]_vars

\* C34 (as claimed): when sendWithQoS returns true for a record of the session,
\* the server has accepted that record in an earlier pass and stored its
\* readings.
C34Claim ==
    (Returned /\ ret) => applied[call.current_seq] >= 1


\* The scheduling of the client in a session: setup() and an iteration of
\* loop() are straight-line code whose waits all time out, the broker is
\* within reach so that reconnect() returns, and loop() is called again and
\* again with a sensor that gives valid readings.
SpecSessionFair ==
    /\ SpecSession
    /\ WF_vars(ClientStep)
    /\ WF_vars(Reconnect)
    /\ WF_vars(Sense)

\* From here on the link stays connected and every call of sendWithQoS
\* returns true at its first attempt (nothing is lost), with a further reading
\* still to be taken.
GoodFromNowOn ==
    /\ pc = "loop"
    /\ seq < MaxSeq
    /\ [](wifi /\ (Returned => ret /\ call.retry_count = 0))

\* C31 (as claimed): if from some point on the link stays connected and every
\* record sent is acknowledged, the queue is eventually emptied and its file
\* removed, in the running session.
C31Claim ==
    <>GoodFromNowOn => <>[](~file.exists)


-----------------------------------------------------------------------------
\* The client with its MQTT channel: the broker may be out of the client's
\* reach, the UDP link and the server are available

\* The broker goes out of reach, which ends the client's connection to it, and
\* comes back.
BrokerLost ==
    /\ client.broker
    /\ client' = [connected |-> FALSE, broker |-> FALSE]
    /\ UNCHANGED <<srvVars, netVars, variant, qos, wifi, fs_is_ready, seq, file,
                   current_delay, pc, payload, call, ret, drain, obs, dobs,
                   hist>>

BrokerBack ==
    /\ ~client.broker
    /\ client' = [client EXCEPT !.broker = TRUE]
    /\ UNCHANGED <<srvVars, netVars, variant, qos, wifi, fs_is_ready, seq, file,
                   current_delay, pc, payload, call, ret, drain, obs, dobs,
                   hist>>

InitMqtt ==
    /\ ServerBoot
    /\ client \in [connected : {FALSE}, broker : BOOLEAN]
    /\ seq = 0
    /\ current_delay = BASE_DELAY_MS
    /\ payload = Malformed
    /\ call = NoCall
    /\ ret = FALSE
    /\ drain = NoDrain
    /\ obs = NoObs
    /\ dobs = NoDobs
    /\ hist = NoHist
    /\ toSrv = <<>>
    /\ toCli = <<>>
    /\ variant \in {"cli", "pico"}
    /\ qos = 1
    /\ wifi = TRUE
    /\ fs_is_ready = TRUE
    /\ file = NoFile
    /\ pc = "setup"

NextMqtt ==
    \/ ClientStep
    \/ Reconnect
    \/ ReconnectRetry
    \/ Sense
    \/ SenseFail
    \/ SqRecv
    \/ SrvReceive
    \/ BrokerLost
    \/ BrokerBack

\* The client's steps are taken, loop() is called again and again with a
\* sensor that gives valid readings, and a connect() that can succeed does.
SpecMqtt ==
    /\ InitMqtt
    /\ [][NextMqtt]_vars
    /\ WF_vars(ClientStep)
    /\ WF_vars(Sense)
    /\ WF_vars(Reconnect)

\* C38 (as claimed): when the MQTT broker is never within reach, the client
\* still takes a reading, sends it over UDP and advances seq.
C38Claim ==
    [](~client.broker) => (<>(pc = "sq_wait") /\ <>(seq >= 1))

====
